---- MODULE Spec2Model ----
(***************************************************************************)
(* Model of HTPDataAnalyzer (src/index.py): the House-Tree-Person drawing  *)
(* analysis pipeline.  analyze_drawing_patterns is modelled as a process   *)
(* whose position pc walks through the stages it calls; the pure helpers   *)
(* are operators computed the way the source computes them.               *)
(*                                                                         *)
(* Numbers.  Python floats are modelled in fixed point: a real r is the    *)
(* integer floor(r * Scale).  NaN (numpy's mean of an empty list) is the   *)
(* sentinel NaN; every comparison with it is false, as in IEEE-754.        *)
(* Python values whose type matters (str versus float) are tagged records. *)
(***************************************************************************)
EXTENDS Integers, Sequences, FiniteSets, TLC

----------------------------------------------------------------------------
(* Bounds of the model *)

MaxPhases == 3

MaxScoreStep == 10

----------------------------------------------------------------------------
(* Fixed-point arithmetic *)

Scale == 10 * 100

NaN == 0 - Scale * Scale * 1000

IsNaN(x) == x = NaN

\* a > b on floats: false when either side is NaN
Gt(a, b) == (~IsNaN(a)) /\ (~IsNaN(b)) /\ a > b

Lt(a, b) == (~IsNaN(a)) /\ (~IsNaN(b)) /\ a < b

\* a + b, a * k / d on floats, NaN-propagating
Add(a, b) == IF IsNaN(a) \/ IsNaN(b) THEN NaN ELSE a + b

MulDiv(a, k, d) == IF IsNaN(a) THEN NaN ELSE (a * k) \div d

\* Python's min(x, 1.0): returns x unless 1.0 < x; min(nan, 1.0) is nan
min_one(x) == IF Lt(Scale, x) THEN Scale ELSE x

RECURSIVE sum(_)
sum(s) == IF s = <<>> THEN 0 ELSE Head(s) + sum(Tail(s))

RECURSIVE sum_sq(_)
sum_sq(s) == IF s = <<>> THEN 0 ELSE Head(s) * Head(s) + sum_sq(Tail(s))

RECURSIVE gcd(_, _)
gcd(a, b) == IF b = 0 THEN a ELSE gcd(b, a % b)

RECURSIVE gcd_all(_)
gcd_all(s) == IF s = <<>> THEN 0 ELSE gcd(Head(s), gcd_all(Tail(s)))

RECURSIVE isqrt_search(_, _, _)
isqrt_search(x, lo, hi) ==
    IF lo >= hi THEN lo
    ELSE LET mid == (lo + hi + 1) \div 2
         IN  IF mid * mid <= x THEN isqrt_search(x, mid, hi)
                               ELSE isqrt_search(x, lo, mid - 1)

\* floor of the square root
isqrt(x) == isqrt_search(x, 0, 46340)

\* np.mean of a list of fixed-point numbers; NaN for the empty list
np_mean(xs) == IF Len(xs) = 0 THEN NaN ELSE sum(xs) \div Len(xs)

\* a list of integers as fixed-point numbers
to_float(xs) == [i \in 1..Len(xs) |-> xs[i] * Scale]

\* a / b on floats; a zero denominator yields no number (Python raises
\* ZeroDivisionError, numpy yields nan or inf): NaN stands for all of these
div(a, b) == IF IsNaN(a) \/ IsNaN(b) \/ b = 0 THEN NaN ELSE a \div b

\* The quotient  np.std(xs) / np.mean(xs)  of a list of non-negative
\* integers, which is sqrt(n*sum(x^2) - sum(x)^2) / sum(x).  It is evaluated
\* on xs divided by their gcd (the quotient is unchanged) to stay within
\* TLC's integers.  No number when the mean is zero or the list is empty.
std_over_mean(xs) ==
    IF Len(xs) = 0 \/ sum(xs) = 0 THEN NaN
    ELSE LET g  == gcd_all(xs)
             ys == [i \in 1..Len(xs) |-> xs[i] \div g]
             n  == Len(ys)
         IN  isqrt((n * sum_sq(ys) - sum(ys) * sum(ys)) * Scale * Scale) \div sum(ys)

\* np.mean(xs) > 0 for a list of integers: the mean of the empty list is
\* nan, which is not greater than 0
mean_is_positive(xs) == Len(xs) > 0 /\ sum(xs) > 0

\* The expression  np.std(xs) / np.mean(xs) if np.mean(xs) > 0 else 0
coefficient_of_variation(xs) ==
    IF mean_is_positive(xs) THEN std_over_mean(xs) ELSE 0

\* floor(1000 * log2(n)) for n = 1..32
Log2Milli ==
    << 0, 1000, 1584, 2000, 2321, 2584, 2807, 3000,
       3169, 3321, 3459, 3584, 3700, 3807, 3906, 4000,
       4087, 4169, 4247, 4321, 4392, 4459, 4523, 4584,
       4643, 4700, 4754, 4807, 4857, 4906, 4954, 5000 >>

np_log2(n) == Log2Milli[n]

----------------------------------------------------------------------------
(* Python values whose type matters *)

Str(s) == [tag |-> "str", s |-> s, n |-> 0]

Num(n) == [tag |-> "float", s |-> "", n |-> n]

TypeError == [tag |-> "TypeError", s |-> "can't multiply sequence by non-int of type 'float'", n |-> 0]

\* x * 0.5 where x is a Python value: str * float raises TypeError
py_mul_half(x) ==
    IF x.tag = "float" THEN Num(MulDiv(x.n, 5, 10)) ELSE TypeError

\* a + b on Python values, propagating a raised exception
py_add(a, b) ==
    IF a.tag = "TypeError" THEN a
    ELSE IF b.tag = "TypeError" THEN b
    ELSE Num(Add(a.n, b.n))

----------------------------------------------------------------------------
(* Input data *)

RequiredPhaseFields == {"phase", "timeSpent", "strokeCount", "colorsUsed"}

TimeSpentValues == {0, 300000, 600000}

StrokeCountValues == {0, 50}

ColorsUsedValues == { <<>>, <<"red">>, <<"red", "blue", "green", "red">> }

\* A phase is a mapping: fields is the set of its keys, the other
\* components are the values of the keys it has.
PhaseRecord(f, t, s, c, cov) ==
    [fields |-> f, timeSpent |-> t, strokeCount |-> s, colorsUsed |-> c, coverage |-> cov]

CompletePhases ==
    { PhaseRecord(RequiredPhaseFields, t, s, c, 0) :
        t \in TimeSpentValues, s \in StrokeCountValues, c \in ColorsUsedValues }
    \cup { PhaseRecord(RequiredPhaseFields \cup {"coverage"}, 600000, 50, <<"red">>, 80) }

IncompletePhases ==
    { PhaseRecord(RequiredPhaseFields \ {"colorsUsed"}, 300000, 50, <<>>, 0),
      PhaseRecord(RequiredPhaseFields \ {"timeSpent"}, 0, 50, <<"red">>, 0) }

PhaseRecords == CompletePhases \cup IncompletePhases

PhaseSeqs == UNION { [1..n -> PhaseRecords] : n \in 0..MaxPhases }

\* A payload: a mapping or not, with or without the key 'phases'
Payloads ==
    { [is_dict |-> TRUE, has_phases |-> TRUE, phases |-> ps] : ps \in PhaseSeqs }
    \cup { [is_dict |-> TRUE, has_phases |-> FALSE, phases |-> <<>>],
           [is_dict |-> FALSE, has_phases |-> FALSE, phases |-> <<>>] }

----------------------------------------------------------------------------
(* validate_input *)

\* validate_input without the loop over the phases
validate_input_keys_only(data) ==
    data.is_dict /\ data.has_phases

validate_input(data) ==
    IF ~data.is_dict \/ ~data.has_phases THEN FALSE
    ELSE \A i \in 1..Len(data.phases) :
            \A field \in RequiredPhaseFields : field \in data.phases[i].fields

----------------------------------------------------------------------------
(* Time features *)

\* timeSpent / 60000
ms_to_minutes(ms) == ms \div (60000 \div Scale)

phase_names == << "Home & Security", "Personal Growth", "Self-Image" >>

\* zip(phase_names, times): stops at the shorter of the two
zip_names_times(times) ==
    LET n == IF Len(times) < Len(phase_names) THEN Len(times) ELSE Len(phase_names)
    IN  [i \in 1..n |-> [domain |-> phase_names[i], time_minutes |-> times[i]]]

\* insertion of x behind every element whose time is not smaller
RECURSIVE insert_desc(_, _)
insert_desc(s, x) ==
    IF s = <<>> THEN <<x>>
    ELSE IF Head(s).time_minutes >= x.time_minutes
         THEN <<Head(s)>> \o insert_desc(Tail(s), x)
         ELSE <<x>> \o s

\* sorted(pairs, key=lambda x: x[1], reverse=True): stable, descending
RECURSIVE sorted_desc(_)
sorted_desc(pairs) ==
    IF pairs = <<>> THEN <<>>
    ELSE insert_desc(sorted_desc(SubSeq(pairs, 1, Len(pairs) - 1)), pairs[Len(pairs)])

\* calculate_phase_priorities with the rank taken from enumerate unshifted
calculate_phase_priorities_zero_based(times) ==
    LET priorities == sorted_desc(zip_names_times(times))
    IN  [i \in 1..Len(priorities) |->
            [domain |-> priorities[i].domain,
             time_minutes |-> priorities[i].time_minutes,
             priority_rank |-> i - 1]]

calculate_phase_priorities(times) ==
    LET priorities == sorted_desc(zip_names_times(times))
    IN  [i \in 1..Len(priorities) |->
            [domain |-> priorities[i].domain,
             time_minutes |-> priorities[i].time_minutes,
             priority_rank |-> i]]

stroke_counts(phases) == [i \in 1..Len(phases) |-> phases[i].strokeCount]

calculate_time_efficiency(times, phases) ==
    IF sum(stroke_counts(phases)) > 0
    THEN div(sum(times), sum(stroke_counts(phases)))
    ELSE 0

extract_time_features(phases) ==
    LET times == [i \in 1..Len(phases) |-> ms_to_minutes(phases[i].timeSpent)]
    IN  [total_time |-> sum(times),
         average_time |-> np_mean(times),
         time_distribution |-> times,
         phase_priorities |-> calculate_phase_priorities(times),
         time_efficiency_score |-> calculate_time_efficiency(times, phases)]

----------------------------------------------------------------------------
(* Complexity features *)

calculate_complexity_score(strokes, coverage) ==
    LET stroke_score == div(np_mean(to_float(strokes)), 100)
        coverage_score == div(np_mean(to_float(coverage)), 100)
    IN  min_one(div(Add(stroke_score, coverage_score), 2))

\* calculate_artistic_intensity without the guard on total_time
calculate_artistic_intensity_unguarded(phases) ==
    LET total_activity ==
            sum([i \in 1..Len(phases) |->
                    phases[i].strokeCount + Len(phases[i].colorsUsed)])
        total_time ==
            ms_to_minutes(sum([i \in 1..Len(phases) |-> phases[i].timeSpent]))
    IN  div(total_activity * Scale * Scale, total_time)

calculate_artistic_intensity(phases) ==
    LET total_activity ==
            sum([i \in 1..Len(phases) |->
                    phases[i].strokeCount + Len(phases[i].colorsUsed)])
        total_time ==
            ms_to_minutes(sum([i \in 1..Len(phases) |-> phases[i].timeSpent]))
    IN  IF total_time > 0
        THEN div(total_activity * Scale * Scale, total_time)
        ELSE 0

extract_complexity_features(phases) ==
    LET strokes == stroke_counts(phases)
        coverage == [i \in 1..Len(phases) |->
                        IF "coverage" \in phases[i].fields
                        THEN phases[i].coverage ELSE 0]
    IN  [total_strokes |-> sum(strokes),
         average_strokes |-> np_mean(to_float(strokes)),
         complexity_score |-> calculate_complexity_score(strokes, coverage),
         artistic_intensity |-> calculate_artistic_intensity(phases)]

----------------------------------------------------------------------------
(* Color features *)

RECURSIVE flatten(_)
flatten(ss) == IF ss = <<>> THEN <<>> ELSE Head(ss) \o flatten(Tail(ss))

\* Counter(all_colors)
Counter(all_colors) ==
    [c \in {all_colors[i] : i \in 1..Len(all_colors)} |->
        Cardinality({i \in 1..Len(all_colors) : all_colors[i] = c})]

RECURSIVE sum_over(_, _)
sum_over(f, keys) ==
    IF keys = {} THEN 0
    ELSE LET k == CHOOSE x \in keys : TRUE
         IN  f[k] + sum_over(f, keys \ {k})

\* -sum((count/total) * log2(count/total)), which is
\* sum(count * (log2(total) - log2(count))) / total
entropy_of(color_counts, total) ==
    LET term == [c \in DOMAIN color_counts |->
                    color_counts[c] * (np_log2(total) - np_log2(color_counts[c]))]
    IN  div(sum_over(term, DOMAIN color_counts), total)

calculate_color_diversity(all_colors) ==
    LET color_counts == Counter(all_colors)
        total == Len(all_colors)
    IN  IF total <= 1 THEN 0
        ELSE LET entropy == entropy_of(color_counts, total)
                 max_entropy == np_log2(Cardinality(DOMAIN color_counts))
             IN  IF max_entropy > 0
                 THEN div(entropy * Scale, max_entropy)
                 ELSE 0

assess_emotional_expression(color_counts) ==
    LET avg_colors == np_mean(to_float(color_counts))
    IN  IF Gt(avg_colors, 3 * Scale) THEN "High"
        ELSE IF Gt(avg_colors, (15 * Scale) \div 10) THEN "Moderate"
        ELSE "Low"

color_count_list(phases) == [i \in 1..Len(phases) |-> Len(phases[i].colorsUsed)]

calculate_color_consistency(phases) ==
    LET color_counts == color_count_list(phases)
    IN  IF mean_is_positive(color_counts)
        THEN Add(Scale, 0 - std_over_mean(color_counts))
        ELSE Scale

extract_color_features(phases) ==
    LET all_colors == flatten([i \in 1..Len(phases) |-> phases[i].colorsUsed])
        color_counts == color_count_list(phases)
    IN  [total_unique_colors |-> Cardinality({all_colors[i] : i \in 1..Len(all_colors)}),
         color_per_phase |-> color_counts,
         color_diversity_score |-> calculate_color_diversity(all_colors),
         emotional_expression_level |-> assess_emotional_expression(color_counts),
         color_consistency |-> calculate_color_consistency(phases)]

----------------------------------------------------------------------------
(* Consistency features *)

\* 1 - mean of the three coefficients of variation
calculate_overall_consistency(times, strokes, colors) ==
    LET time_cv == coefficient_of_variation(times)
        stroke_cv == coefficient_of_variation(strokes)
        color_cv == coefficient_of_variation(colors)
    IN  Scale - (time_cv + stroke_cv + color_cv) \div 3

extract_consistency_features(phases) ==
    LET times == [i \in 1..Len(phases) |-> phases[i].timeSpent]
        strokes == stroke_counts(phases)
        colors == color_count_list(phases)
    IN  [time_consistency |-> Scale - coefficient_of_variation(times),
         stroke_consistency |-> Scale - coefficient_of_variation(strokes),
         color_consistency |-> Scale - coefficient_of_variation(colors),
         overall_consistency |-> calculate_overall_consistency(times, strokes, colors)]

----------------------------------------------------------------------------
(* Composite scores *)

NoScores ==
    [psychological_investment |-> 0, creative_expression |-> 0,
     behavioral_consistency |-> 0, attention_to_detail |-> 0]

\* The dict display is evaluated key by key; an exception raised by one
\* value abandons the whole dict.
calculate_composite_scores(time_f, complexity_f, color_f, consistency_f) ==
    LET psychological_investment ==
            min_one(Add(MulDiv(div(time_f.total_time, 15), 4, 10),
                        MulDiv(complexity_f.complexity_score, 6, 10)))
        creative_expression ==
            py_add(py_mul_half(Num(color_f.color_diversity_score)),
                   py_mul_half(Str(color_f.emotional_expression_level)))
        behavioral_consistency == consistency_f.overall_consistency
        attention_to_detail ==
            min_one(Add(MulDiv(div(complexity_f.total_strokes * Scale, 300), 6, 10),
                        MulDiv(complexity_f.artistic_intensity, 4, 10)))
    IN  IF creative_expression.tag = "float"
        THEN [raised |-> "none",
              scores |-> [psychological_investment |-> psychological_investment,
                          creative_expression |-> min_one(creative_expression.n),
                          behavioral_consistency |-> behavioral_consistency,
                          attention_to_detail |-> attention_to_detail]]
        ELSE [raised |-> creative_expression.tag, scores |-> NoScores]

----------------------------------------------------------------------------
(* Classifier and cognitive style *)

\* the float literal 0.k
tenths(k) == (k * Scale) \div 10

personality_clusters ==
    [c \in 0..3 |->
        CASE c = 0 -> [type |-> "Analytical", description |-> "Detail-oriented, systematic, consistent"]
          [] c = 1 -> [type |-> "Creative", description |-> "Expressive, colorful, varied approach"]
          [] c = 2 -> [type |-> "Efficient", description |-> "Quick, decisive, minimalist"]
          [] c = 3 -> [type |-> "Thoughtful", description |-> "Reflective, thorough, balanced"]]

\* determine_personality_cluster with the Creative rule tried first
determine_personality_cluster_creative_first(scores) ==
    IF Gt(scores.creative_expression, tenths(6)) /\ Gt(scores.psychological_investment, tenths(5))
    THEN 1
    ELSE IF Gt(scores.attention_to_detail, tenths(7)) /\ Gt(scores.behavioral_consistency, tenths(6))
    THEN 0
    ELSE IF Lt(scores.psychological_investment, tenths(4)) /\ Gt(scores.behavioral_consistency, tenths(5))
    THEN 2
    ELSE 3

determine_personality_cluster(scores) ==
    IF Gt(scores.attention_to_detail, tenths(7)) /\ Gt(scores.behavioral_consistency, tenths(6))
    THEN 0
    ELSE IF Gt(scores.creative_expression, tenths(6)) /\ Gt(scores.psychological_investment, tenths(5))
    THEN 1
    ELSE IF Lt(scores.psychological_investment, tenths(4)) /\ Gt(scores.behavioral_consistency, tenths(5))
    THEN 2
    ELSE 3

\* The outcomes of calculate_cluster_confidence(feature_vector, cluster):
\* it raises, or it returns a confidence value.
calculate_cluster_confidence(scores, c) ==
    { [raised |-> TRUE, value |-> 0], [raised |-> FALSE, value |-> tenths(5)] }

\* The value perform_personality_clustering returns when the confidence
\* computation has the outcome conf
perform_personality_clustering(scores, conf) ==
    LET c == determine_personality_cluster(scores)
    IN  IF conf.raised
        THEN [cluster_id |-> 0, personality_type |-> "Unknown",
              description |-> "Analysis incomplete", confidence_score |-> 0]
        ELSE [cluster_id |-> c, personality_type |-> personality_clusters[c].type,
              description |-> personality_clusters[c].description,
              confidence_score |-> conf.value]

\* assess_cognitive_style with the consistency split at 0.5
assess_cognitive_style_split_at_half(composite) ==
    LET detail_score == composite.attention_to_detail
        consistency_score == composite.behavioral_consistency
    IN  IF Gt(detail_score, tenths(7))
        THEN IF Gt(consistency_score, tenths(5))
             THEN [style |-> "Systematic Processor", description |-> "Methodical, thorough, detail-oriented"]
             ELSE [style |-> "Complex Processor", description |-> "Detailed but flexible approach"]
        ELSE IF Lt(detail_score, tenths(3))
             THEN [style |-> "Global Processor", description |-> "Big-picture focus, efficient processing"]
             ELSE [style |-> "Balanced Processor", description |-> "Adaptive between detail and overview"]

assess_cognitive_style(composite) ==
    LET detail_score == composite.attention_to_detail
        consistency_score == composite.behavioral_consistency
    IN  IF Gt(detail_score, tenths(7))
        THEN IF Gt(consistency_score, tenths(6))
             THEN [style |-> "Systematic Processor", description |-> "Methodical, thorough, detail-oriented"]
             ELSE [style |-> "Complex Processor", description |-> "Detailed but flexible approach"]
        ELSE IF Lt(detail_score, tenths(3))
             THEN [style |-> "Global Processor", description |-> "Big-picture focus, efficient processing"]
             ELSE [style |-> "Balanced Processor", description |-> "Adaptive between detail and overview"]

----------------------------------------------------------------------------
(* State *)

VARIABLES
    entry,               \* the method of HTPDataAnalyzer that was called
    pc,                  \* the position of the call
    drawing_data,        \* the payload of analyze_drawing_patterns
    valid,               \* what validate_input returned
    features,            \* the feature groups and composite scores so far
    raised,              \* the exception in flight, "none" if none
    cluster,             \* what determine_personality_cluster returned
    personality_cluster, \* what perform_personality_clustering returned
    cognitive_style,     \* what assess_cognitive_style returned
    result,              \* what the call returned
    invoked              \* the methods invoked so far

vars == << entry, pc, drawing_data, valid, features, raised, cluster,
           personality_cluster, cognitive_style, result, invoked >>

NoFeatures ==
    [time_features |->
        [total_time |-> 0, average_time |-> 0, time_distribution |-> <<>>,
         phase_priorities |-> <<>>, time_efficiency_score |-> 0],
     complexity_features |->
        [total_strokes |-> 0, average_strokes |-> 0, complexity_score |-> 0,
         artistic_intensity |-> 0],
     color_features |->
        [total_unique_colors |-> 0, color_per_phase |-> <<>>,
         color_diversity_score |-> 0, emotional_expression_level |-> "",
         color_consistency |-> 0],
     consistency_features |->
        [time_consistency |-> 0, stroke_consistency |-> 0,
         color_consistency |-> 0, overall_consistency |-> 0],
     composite_scores |-> NoScores]

NoResult == [kind |-> "none", message |-> ""]

NoCluster == [cluster_id |-> 0, personality_type |-> "", description |-> "", confidence_score |-> 0]

NoStyle == [style |-> "", description |-> ""]

\* Composite scores handed to the classifier when it is called directly
ScoreGrid == { tenths(i) : i \in 0..MaxScoreStep }

CompositeGrid ==
    [psychological_investment : ScoreGrid, creative_expression : ScoreGrid,
     behavioral_consistency : ScoreGrid \cup {0 - tenths(1)},
     attention_to_detail : ScoreGrid]

\* analyze_drawing_patterns(drawing_data) is called with a payload
InitAnalyze ==
    /\ entry = "analyze_drawing_patterns"
    /\ pc = "validate"
    /\ drawing_data \in Payloads
    /\ features = NoFeatures

\* perform_personality_clustering(features) and generate_psychological_profile
\* (features) are called with a feature set
InitClassify ==
    /\ entry = "perform_personality_clustering"
    /\ pc = "cluster"
    /\ drawing_data = [is_dict |-> FALSE, has_phases |-> FALSE, phases |-> <<>>]
    /\ \E c \in CompositeGrid : features = [NoFeatures EXCEPT !.composite_scores = c]

Init ==
    /\ InitAnalyze \/ InitClassify
    /\ valid = FALSE
    /\ raised = "none"
    /\ cluster = 0
    /\ personality_cluster = NoCluster
    /\ cognitive_style = NoStyle
    /\ result = NoResult
    /\ invoked = {}

----------------------------------------------------------------------------
(* analyze_drawing_patterns, step by step *)

Validate ==
    /\ pc = "validate"
    /\ valid' = validate_input(drawing_data)
    /\ invoked' = invoked \cup {"validate_input"}
    /\ IF valid'
       THEN /\ pc' = "time"
            /\ result' = result
       ELSE /\ pc' = "done"
            /\ result' = [kind |-> "error", message |-> "Invalid input data format"]
    /\ UNCHANGED << entry, drawing_data, features, raised, cluster,
                    personality_cluster, cognitive_style >>

ExtractTime ==
    /\ pc = "time"
    /\ features' = [features EXCEPT
                       !.time_features = extract_time_features(drawing_data.phases)]
    /\ invoked' = invoked \cup {"extract_time_features"}
    /\ pc' = "complexity"
    /\ UNCHANGED << entry, drawing_data, valid, raised, cluster,
                    personality_cluster, cognitive_style, result >>

ExtractComplexity ==
    /\ pc = "complexity"
    /\ features' = [features EXCEPT
                       !.complexity_features = extract_complexity_features(drawing_data.phases)]
    /\ invoked' = invoked \cup {"extract_complexity_features"}
    /\ pc' = "color"
    /\ UNCHANGED << entry, drawing_data, valid, raised, cluster,
                    personality_cluster, cognitive_style, result >>

ExtractColor ==
    /\ pc = "color"
    /\ features' = [features EXCEPT
                       !.color_features = extract_color_features(drawing_data.phases)]
    /\ invoked' = invoked \cup {"extract_color_features"}
    /\ pc' = "consistency"
    /\ UNCHANGED << entry, drawing_data, valid, raised, cluster,
                    personality_cluster, cognitive_style, result >>

ExtractConsistency ==
    /\ pc = "consistency"
    /\ features' = [features EXCEPT
                       !.consistency_features = extract_consistency_features(drawing_data.phases)]
    /\ invoked' = invoked \cup {"extract_consistency_features"}
    /\ pc' = "composite"
    /\ UNCHANGED << entry, drawing_data, valid, raised, cluster,
                    personality_cluster, cognitive_style, result >>

CompositeScores ==
    /\ pc = "composite"
    /\ LET r == calculate_composite_scores(features.time_features,
                                           features.complexity_features,
                                           features.color_features,
                                           features.consistency_features)
       IN  IF r.raised = "none"
           THEN /\ features' = [features EXCEPT !.composite_scores = r.scores]
                /\ raised' = raised
                /\ pc' = "cluster"
           ELSE /\ features' = features
                /\ raised' = r.raised
                /\ pc' = "except"
    /\ invoked' = invoked \cup {"calculate_composite_scores"}
    /\ UNCHANGED << entry, drawing_data, valid, cluster,
                    personality_cluster, cognitive_style, result >>

PerformPersonalityClustering ==
    /\ pc = "cluster"
    /\ cluster' = determine_personality_cluster(features.composite_scores)
    /\ \E conf \in calculate_cluster_confidence(features.composite_scores, cluster') :
          personality_cluster' =
              perform_personality_clustering(features.composite_scores, conf)
    /\ invoked' = invoked \cup {"perform_personality_clustering"}
    /\ pc' = "profile"
    /\ UNCHANGED << entry, drawing_data, valid, features, raised,
                    cognitive_style, result >>

GeneratePsychologicalProfile ==
    /\ pc = "profile"
    /\ cognitive_style' = assess_cognitive_style(features.composite_scores)
    /\ invoked' = invoked \cup {"generate_psychological_profile"}
    /\ pc' = "done"
    /\ result' = [kind |-> "analysis", message |-> ""]
    /\ UNCHANGED << entry, drawing_data, valid, features, raised, cluster,
                    personality_cluster >>

\* except Exception as e: return {'error': f'Analysis failed: {str(e)}'}
HandleException ==
    /\ pc = "except"
    /\ result' = [kind |-> "error", message |-> "Analysis failed: " \o raised]
    /\ raised' = "none"
    /\ pc' = "done"
    /\ UNCHANGED << entry, drawing_data, valid, features, cluster,
                    personality_cluster, cognitive_style, invoked >>

Next ==
    \/ Validate
    \/ ExtractTime
    \/ ExtractComplexity
    \/ ExtractColor
    \/ ExtractConsistency
    \/ CompositeScores
    \/ PerformPersonalityClustering
    \/ GeneratePsychologicalProfile
    \/ HandleException

Spec == Init /\ [][Next]_vars

----------------------------------------------------------------------------
(* Properties *)

AllFields(data) ==
    \A i \in 1..Len(data.phases) : RequiredPhaseFields \subseteq data.phases[i].fields

SomePhaseLacksField(data) ==
    \E i \in 1..Len(data.phases) : ~(RequiredPhaseFields \subseteq data.phases[i].fields)

Ran(method) == method \in invoked

LaterStages ==
    { "extract_time_features", "extract_complexity_features",
      "extract_color_features", "extract_consistency_features",
      "calculate_composite_scores", "perform_personality_clustering",
      "generate_psychological_profile" }

\* a submission that is valid in the sense of the data model: a non-empty
\* sequence of phases that carry all four required fields
ValidSubmission ==
    /\ entry = "analyze_drawing_patterns"
    /\ drawing_data.is_dict /\ drawing_data.has_phases
    /\ Len(drawing_data.phases) > 0
    /\ AllFields(drawing_data)

\* C1: validate_input returns valid if and only if the payload is a mapping
\* with a 'phases' key whose value is a non-empty sequence and every element
\* has the four required fields; {"phases": []} is rejected.
C1_ValidIffNonEmptyAndComplete ==
    Ran("validate_input") =>
        (valid <=> /\ drawing_data.is_dict
                   /\ drawing_data.has_phases
                   /\ Len(drawing_data.phases) > 0
                   /\ AllFields(drawing_data))

\* C2: when the payload has no 'phases' key or some phase lacks a required
\* field, analyze_drawing_patterns returns the error 'Invalid input data
\* format' and no later stage is invoked; no later stage is ever invoked
\* before validation has passed.
C2_InvalidInputShortCircuits ==
    entry = "analyze_drawing_patterns" =>
        /\ (invoked \cap LaterStages # {} => Ran("validate_input") /\ valid)
        /\ (~drawing_data.has_phases \/ SomePhaseLacksField(drawing_data)) =>
              /\ invoked \cap LaterStages = {}
              /\ pc = "done" =>
                    result = [kind |-> "error", message |-> "Invalid input data format"]
              /\ pc \in {"validate", "done"}

C2_Witness ==
    /\ entry = "analyze_drawing_patterns"
    /\ pc = "done"
    /\ Len(drawing_data.phases) = 3
    /\ RequiredPhaseFields \subseteq drawing_data.phases[1].fields
    /\ "colorsUsed" \notin drawing_data.phases[3].fields
    /\ result.message = "Invalid input data format"
    /\ invoked = {"validate_input"}

Rule1(s) == s.attention_to_detail > tenths(7) /\ s.behavioral_consistency > tenths(6)

Rule2(s) == s.creative_expression > tenths(6) /\ s.psychological_investment > tenths(5)

Rule3(s) == s.psychological_investment < tenths(4) /\ s.behavioral_consistency > tenths(5)

\* C3: determine_personality_cluster evaluates rule 1, rule 2, rule 3 in this
\* order and the first matching rule wins: Analytical whenever rule 1 holds,
\* Creative whenever rule 2 holds and rule 1 does not, Efficient whenever
\* rule 3 holds and rules 1 and 2 do not, Thoughtful otherwise.
C3_FirstMatchingRuleWins ==
    Ran("perform_personality_clustering") =>
        LET s == features.composite_scores
            label == personality_clusters[cluster].type
        IN  /\ Rule1(s) => label = "Analytical"
            /\ (~Rule1(s) /\ Rule2(s)) => label = "Creative"
            /\ (~Rule1(s) /\ ~Rule2(s) /\ Rule3(s)) => label = "Efficient"
            /\ (~Rule1(s) /\ ~Rule2(s) /\ ~Rule3(s)) => label = "Thoughtful"

C3_Witness ==
    /\ Ran("perform_personality_clustering")
    /\ Rule1(features.composite_scores)
    /\ Rule2(features.composite_scores)
    /\ cluster = 0

\* C4: the personality_type that perform_personality_clustering returns is
\* one of Analytical, Creative, Efficient, Thoughtful on every path, the
\* path taken when the confidence computation faults included.
C4_TypeIsOneOfFourLabels ==
    Ran("perform_personality_clustering") =>
        personality_cluster.personality_type \in
            {"Analytical", "Creative", "Efficient", "Thoughtful"}

\* C5: for every valid submission the composite scorer yields four scores,
\* each at most 1.0, behavioral_consistency included.
C5_CompositeScoresAtMostOne ==
    (ValidSubmission /\ Ran("calculate_composite_scores")) =>
        /\ pc # "except"
        /\ features.composite_scores.psychological_investment <= Scale
        /\ features.composite_scores.creative_expression <= Scale
        /\ features.composite_scores.behavioral_consistency <= Scale
        /\ features.composite_scores.attention_to_detail <= Scale

\* C6: for every valid submission creative_expression is the number
\* min(color_diversity_score * 0.5 + s * 0.5, 1.0) for a numeric score s of
\* the emotional-expression level; the combination is a number for each of
\* High, Moderate and Low.
C6_CreativeExpressionIsNumber ==
    (ValidSubmission /\ Ran("calculate_composite_scores")) =>
        /\ raised = "none"
        /\ \E s \in 0..Scale :
              features.composite_scores.creative_expression =
                  min_one((features.color_features.color_diversity_score * 5) \div 10
                          + (s * 5) \div 10)

\* C7: the guarded divisions return their fallback instead of faulting:
\* time_efficiency_score is 0 when the total stroke count is 0,
\* artistic_intensity is 0 when the total time is 0, color_consistency is 1
\* when the mean color count is 0, color_diversity_score is 0 when there is
\* at most one color usage or one distinct color; none of them is a fault.
C7_GuardedDivisionsFallBack ==
    LET phases == drawing_data.phases
        usages == sum(color_count_list(phases))
        distinct == UNION { {phases[i].colorsUsed[j] : j \in 1..Len(phases[i].colorsUsed)} :
                              i \in 1..Len(phases) }
    IN  /\ Ran("extract_time_features") =>
              /\ ~IsNaN(features.time_features.time_efficiency_score)
              /\ sum(stroke_counts(phases)) = 0 =>
                    features.time_features.time_efficiency_score = 0
        /\ Ran("extract_complexity_features") =>
              /\ ~IsNaN(features.complexity_features.artistic_intensity)
              /\ (\A i \in 1..Len(phases) : phases[i].timeSpent = 0) =>
                    features.complexity_features.artistic_intensity = 0
        /\ Ran("extract_color_features") =>
              /\ ~IsNaN(features.color_features.color_consistency)
              /\ ~IsNaN(features.color_features.color_diversity_score)
              /\ usages = 0 => features.color_features.color_consistency = Scale
              /\ (usages <= 1 \/ Cardinality(distinct) = 1) =>
                    features.color_features.color_diversity_score = 0

C7_Witness ==
    /\ Ran("extract_color_features")
    /\ Len(drawing_data.phases) = 3
    /\ \A i \in 1..3 : /\ drawing_data.phases[i].timeSpent = 0
                       /\ drawing_data.phases[i].strokeCount = 0
                       /\ drawing_data.phases[i].colorsUsed = <<"red">>
    /\ features.time_features.time_efficiency_score = 0
    /\ features.complexity_features.artistic_intensity = 0
    /\ features.color_features.color_diversity_score = 0

\* the phase a priority entry stands for
PhaseOf(domain) == CHOOSE k \in 1..Len(phase_names) : phase_names[k] = domain

\* C8: for a three-phase submission calculate_phase_priorities returns each
\* phase exactly once with its domain label and its time, by non-increasing
\* time, priority_rank being the 1-based position; phases of equal time keep
\* their phase order.
C8_PhasePrioritiesRanked ==
    (Ran("extract_time_features") /\ Len(drawing_data.phases) = 3) =>
        LET pr == features.time_features.phase_priorities
        IN  /\ Len(pr) = 3
            /\ \A k \in 1..3 :
                  Cardinality({i \in 1..3 : pr[i].domain = phase_names[k]}) = 1
            /\ \A i \in 1..3 :
                  /\ pr[i].priority_rank = i
                  /\ pr[i].time_minutes * 60 <= drawing_data.phases[PhaseOf(pr[i].domain)].timeSpent
                  /\ drawing_data.phases[PhaseOf(pr[i].domain)].timeSpent < (pr[i].time_minutes + 1) * 60
            /\ \A i, j \in 1..3 :
                  i < j =>
                      /\ pr[i].time_minutes >= pr[j].time_minutes
                      /\ pr[i].time_minutes = pr[j].time_minutes =>
                            PhaseOf(pr[i].domain) < PhaseOf(pr[j].domain)

C8_Witness ==
    /\ Ran("extract_time_features")
    /\ Len(drawing_data.phases) = 3
    /\ drawing_data.phases[1].timeSpent = 300000
    /\ drawing_data.phases[2].timeSpent = 600000
    /\ drawing_data.phases[3].timeSpent = 300000
    /\ features.time_features.phase_priorities[1].domain = "Personal Growth"
    /\ features.time_features.phase_priorities[2].domain = "Home & Security"
    /\ features.time_features.phase_priorities[3].domain = "Self-Image"

Constant(xs) == \A i, j \in 1..Len(xs) : xs[i] = xs[j]

\* C9: equal timeSpent values (all zero included) yield time_consistency 1,
\* likewise for stroke counts and color counts; when all three are constant
\* across the phases, overall_consistency and the composite
\* behavioral_consistency are 1.0.
C9_ConstantMetricsAreConsistent ==
    LET phases == drawing_data.phases
        times == [i \in 1..Len(phases) |-> phases[i].timeSpent]
        all_constant == /\ Constant(times)
                        /\ Constant(stroke_counts(phases))
                        /\ Constant(color_count_list(phases))
    IN  /\ Ran("extract_consistency_features") =>
              /\ Constant(times) => features.consistency_features.time_consistency = Scale
              /\ Constant(stroke_counts(phases)) =>
                    features.consistency_features.stroke_consistency = Scale
              /\ Constant(color_count_list(phases)) =>
                    features.consistency_features.color_consistency = Scale
              /\ all_constant => features.consistency_features.overall_consistency = Scale
        /\ (ValidSubmission /\ Ran("calculate_composite_scores") /\ all_constant) =>
              /\ pc # "except"
              /\ features.composite_scores.behavioral_consistency = Scale

\* C10: determine_personality_cluster returns Analytical (cluster 0) if and
\* only if assess_cognitive_style returns Systematic Processor.
C10_AnalyticalIffSystematic ==
    (Ran("perform_personality_clustering") /\ Ran("generate_psychological_profile")) =>
        (cluster = 0 <=> cognitive_style.style = "Systematic Processor")

C10_Witness ==
    /\ Ran("generate_psychological_profile")
    /\ cluster = 0
    /\ cognitive_style.style = "Systematic Processor"
    /\ features.composite_scores.creative_expression > tenths(6)

====
